---- MODULE Spec2Model ----
(***************************************************************************)
(* Model of src/main.py: the POST /convert-pdf handler (convert_pdf) and    *)
(* the three coroutines it calls (download_pdf, convert_pdf_to_images,      *)
(* upload_image_to_gdrive), run by the single-threaded asyncio event loop.  *)
(* One request is followed from its arrival to its HTTP response.  The      *)
(* remote web server, the document bytes and the Drive store are the        *)
(* environment: their answers are chosen with \E from small sets.           *)
(***************************************************************************)
EXTENDS Integers, Sequences, FiniteSets, TLC

VARIABLES
    pc,                 \* position of the convert_pdf handler
    response,           \* status / Content-Type of the GET response as logged (None before)
    bodyRead,           \* response.read() has been awaited
    fetchCalls,         \* number of session.get calls
    pdf_bytes,          \* the bytes read from the response: pdf_bytes of download_pdf, then of convert_pdf
    rasterCalls,        \* number of fitz.open calls
    rendered,           \* number of doc.load_page calls
    image_bytes_list,   \* the local image_bytes_list of convert_pdf
    raised,             \* the exception logged by the except clause of download / convert
    tasks,              \* the upload tasks created by asyncio.gather, by 1-based position
    ready,              \* the event loop's FIFO queue of ready callbacks
    running,            \* the upload task holding the thread inside its body (0: none)
    outer,              \* the future returned by asyncio.gather
    nfinished,          \* gather's count of finished children
    store,              \* the Drive folder: the sequence of objects created in it
    result              \* the HTTP response of the request (None while it is running)

vars == <<pc, response, bodyRead, fetchCalls, pdf_bytes, rasterCalls, rendered,
          image_bytes_list, raised, tasks, ready, running, outer, nfinished,
          store, result>>

None == [kind |-> "None"]

----------------------------------------------------------------------------
(* Bounds of the model *)

MaxPages == 3          \* small documents have 0..MaxPages pages
MaxFaultPage == 2      \* the store may fail the upload of pages 1..MaxFaultPage
MaxExisting == 0       \* objects already in the Drive folder when the request arrives

(* Program constants *)

MAX_PDF_SIZE == 10485760
MAX_PAGE_COUNT == 300
DPI == 100

----------------------------------------------------------------------------
(* Strings the code inspects are sequences of characters. *)

Upper == <<"A", "P", "L", "I", "C", "T", "O", "N", "D", "F", "E", "X", "H", "M">>
Lower == <<"a", "p", "l", "i", "c", "t", "o", "n", "d", "f", "e", "x", "h", "m">>

LowerChar(c) ==
    IF \E k \in 1..Len(Upper) : Upper[k] = c
    THEN Lower[CHOOSE k \in 1..Len(Upper) : Upper[k] = c]
    ELSE c

str_lower(s) == [k \in 1..Len(s) |-> LowerChar(s[k])]

str_in(sub, s) ==
    \E k \in 1..(Len(s) - Len(sub) + 1) : SubSeq(s, k, k + Len(sub) - 1) = sub

CT_pdf == <<"a","p","p","l","i","c","a","t","i","o","n","/","p","d","f">>
CT_PDF == <<"A","P","P","L","I","C","A","T","I","O","N","/","P","D","F">>
CT_html == <<"t","e","x","t","/","h","t","m","l">>
CT_pd == <<"a","p","p","/","p","d">>
CT_missing == <<>>

ContentTypes == {CT_pdf, CT_PDF, CT_html, CT_pd, CT_missing}
Statuses == {200, 404, 500}

----------------------------------------------------------------------------
(* Exceptions *)

HTTPException(status_code, detail) ==
    [cls |-> "HTTPException", status_code |-> status_code, detail |-> detail]

ClientError == [cls |-> "ClientError"]
FileDataError == [cls |-> "FileDataError"]
RenderFailure == [cls |-> "RuntimeError"]
HttpError == [cls |-> "HttpError"]

----------------------------------------------------------------------------
(* The environment's possible answers *)

Min(a, b) == IF a < b THEN a ELSE b

PageCounts == (0..MaxPages) \cup {MAX_PAGE_COUNT, MAX_PAGE_COUNT + 1}

\* What fitz makes of a body: whether it parses, its page count, and the
\* 1-based page whose rendering raises (0: none).
Unparseable == [parses |-> FALSE, page_count |-> 0, bad |-> 0]

Docs ==
    {Unparseable} \cup
    UNION {{[parses |-> TRUE, page_count |-> n, bad |-> b] :
               b \in 0..Min(n, MaxPages)} : n \in PageCounts}

Bodies ==
    {[kind |-> "body", len |-> 0, doc |-> Unparseable]} \cup
    {[kind |-> "body", len |-> l, doc |-> d] :
        l \in {MAX_PDF_SIZE, MAX_PDF_SIZE + 1}, d \in Docs}

GetOutcomes ==
    {[kind |-> "ClientError"]} \cup
    {[kind |-> "response", status |-> st, content_type |-> ct] :
        st \in Statuses, ct \in ContentTypes}

ReadOutcomes == {[kind |-> "ClientError"]} \cup Bodies

StoreOutcomes(page) == IF page <= MaxFaultPage THEN {"ok", "HttpError"} ELSE {"ok"}

----------------------------------------------------------------------------
(* download_pdf *)

StatusOk(status) == status = 200

ContentTypeOk(content_type) == str_in(<<"p", "d", "f">>, str_lower(content_type))

\* Mutant: the size check is missing.
SizeOk_unchecked(n) == TRUE

SizeOk(n) == ~(n > MAX_PDF_SIZE)

\* The except clauses of download_pdf: what the coroutine raises for an
\* exception raised inside its try block.
download_pdf_except(e) ==
    IF e.cls = "ClientError"
    THEN HTTPException(400, "Client error occurred while downloading PDF.")
    ELSE HTTPException(500, "Unexpected error occurred.")

\* The exception raised inside the try block on the answer to session.get.
GetRaises(out) ==
    IF out.kind = "ClientError" THEN ClientError
    ELSE IF ~StatusOk(out.status)
         THEN HTTPException(400, "Failed to download PDF.")
    ELSE IF ~ContentTypeOk(out.content_type)
         THEN HTTPException(400, "URL does not point to a PDF file.")
    ELSE None

\* The exception raised inside the try block on the answer to response.read.
ReadRaises(out) ==
    IF out.kind = "ClientError" THEN ClientError
    ELSE IF ~SizeOk(out.len) THEN HTTPException(400, "PDF file is too large.")
    ELSE None

\* An HTTPException leaving convert_pdf: FastAPI answers with its status.
Fail(exc) ==
    /\ pc' = "FAILED"
    /\ result' = [status |-> exc.status_code, detail |-> exc.detail]

Init ==
    /\ pc = "START"
    /\ response = None
    /\ bodyRead = FALSE
    /\ fetchCalls = 0
    /\ pdf_bytes = None
    /\ rasterCalls = 0
    /\ rendered = 0
    /\ image_bytes_list = <<>>
    /\ raised = None
    /\ tasks = <<>>
    /\ ready = <<>>
    /\ running = 0
    /\ outer = [state |-> "none"]
    /\ nfinished = 0
    /\ \E n \in 0..MaxExisting :
          store = [k \in 1..n |->
                     [id |-> k, name |-> <<"existing", k, ".png">>,
                      content |-> <<"old">>, public |-> FALSE]]
    /\ result = None

\* session.get and the status / Content-Type checks, up to await response.read().
DownloadGet ==
    /\ pc = "START"
    /\ fetchCalls' = fetchCalls + 1
    /\ \E out \in GetOutcomes :
          LET exc == GetRaises(out) IN
          /\ response' = (IF out.kind = "response" THEN out ELSE response)
          /\ IF exc # None
             THEN /\ raised' = exc
                  /\ Fail(download_pdf_except(exc))
             ELSE /\ pc' = "READ"
                  /\ UNCHANGED <<raised, result>>
    /\ UNCHANGED <<bodyRead, pdf_bytes, rasterCalls, rendered, image_bytes_list,
                   tasks, ready, running, outer, nfinished, store>>

\* response.read(), the size check and the return of download_pdf.
DownloadRead ==
    /\ pc = "READ"
    /\ bodyRead' = TRUE
    /\ \E out \in ReadOutcomes :
          LET exc == ReadRaises(out) IN
          /\ pdf_bytes' = (IF out.kind = "body" THEN out ELSE pdf_bytes)
          /\ IF exc # None
             THEN /\ raised' = exc
                  /\ Fail(download_pdf_except(exc))
             ELSE /\ pc' = "FETCHED"
                  /\ UNCHANGED <<raised, result>>
    /\ UNCHANGED <<response, fetchCalls, rasterCalls, rendered, image_bytes_list,
                   tasks, ready, running, outer, nfinished, store>>

----------------------------------------------------------------------------
(* convert_pdf_to_images *)

\* Mutant: the page-count check is missing, the loop bound truncates instead.
PageLimitExceeded_unchecked(page_count) == FALSE

PageLimitExceeded(page_count) == page_count > MAX_PAGE_COUNT

PagesToRender(page_count) == Min(page_count, MAX_PAGE_COUNT)

\* pix.tobytes("png") of page page_num (0-based) at the given resolution.
RenderPage(page_num, dpi) == <<"png", page_num, dpi>>

\* The except clause of convert_pdf_to_images.
convert_except(e) == HTTPException(500, "Error converting PDF to images.")

\* The exception raised inside the try block for a document (None: it returns).
ConvertRaises(doc) ==
    IF ~doc.parses THEN FileDataError
    ELSE IF PageLimitExceeded(doc.page_count)
         THEN HTTPException(400, "PDF has too many pages.")
    ELSE IF doc.bad \in 1..PagesToRender(doc.page_count) THEN RenderFailure
    ELSE None

\* The number of doc.load_page calls made for a document.
PagesLoaded(doc) ==
    IF ~doc.parses \/ PageLimitExceeded(doc.page_count) THEN 0
    ELSE IF doc.bad \in 1..PagesToRender(doc.page_count) THEN doc.bad
    ELSE PagesToRender(doc.page_count)

\* The whole of convert_pdf_to_images: it has no suspension point.
Convert ==
    /\ pc = "FETCHED"
    /\ rasterCalls' = rasterCalls + 1
    /\ LET doc == pdf_bytes.doc
           exc == ConvertRaises(doc)
       IN /\ rendered' = rendered + PagesLoaded(doc)
          /\ IF exc # None
             THEN /\ raised' = exc
                  /\ Fail(convert_except(exc))
                  /\ UNCHANGED image_bytes_list
             ELSE /\ image_bytes_list' =
                        [k \in 1..PagesToRender(doc.page_count) |-> RenderPage(k - 1, DPI)]
                  /\ pc' = "RASTERIZED"
                  /\ UNCHANGED <<raised, result>>
    /\ UNCHANGED <<response, bodyRead, fetchCalls, pdf_bytes, tasks, ready,
                   running, outer, nfinished, store>>

----------------------------------------------------------------------------
(* upload_image_to_gdrive, run as a task of the event loop *)

\* f"page{idx + 1}.png" for the 0-based position idx of the image.
filename(idx) == <<"page", idx + 1, ".png">>

\* Mutant: the link is built from a constant instead of the created object's id.
ShareableLink_fixed(file_id) == <<"https://drive.google.com/uc?id=", 0>>

\* f"https://drive.google.com/uc?id={file_id}"
ShareableLink(file_id) == <<"https://drive.google.com/uc?id=", file_id>>

\* The except clause of upload_image_to_gdrive.
upload_except(e) == HTTPException(500, "Error uploading images.")

\* The identifier the store gives the next object it creates.
NewId(st) == Len(st) + 1

\* Entries of the loop's ready queue.
Step(i) == [cb |-> "step", i |-> i]
Done(i) == [cb |-> "done", i |-> i]
WakeUp == [cb |-> "wakeup", i |-> 0]

\* The coroutine object upload_image_to_gdrive(image_bytes, f"page{idx + 1}.png"),
\* wrapped in a task by gather.
NewTask(image_bytes, idx) ==
    [state |-> "pending", image_bytes |-> image_bytes, filename |-> filename(idx),
     creates |-> 0, grants |-> 0, file_id |-> 0, value |-> None]

\* The task's coroutine has ended: its done callback is scheduled.
Finish(i, st, value) ==
    /\ tasks' = [tasks EXCEPT ![i].state = st, ![i].value = value]
    /\ running' = 0

\* Mutant: a failed create call is retried once before the task gives up.
UploadCreate_retrying(i) ==
    /\ running = 0
    /\ ready # <<>>
    /\ Head(ready) = Step(i)
    /\ \E out \in StoreOutcomes(i) :
          IF out = "ok"
          THEN /\ store' = Append(store,
                      [id |-> NewId(store), name |-> tasks[i].filename,
                       content |-> tasks[i].image_bytes, public |-> FALSE])
               /\ tasks' = [tasks EXCEPT ![i].state = "created",
                                         ![i].creates = @ + 1,
                                         ![i].file_id = NewId(store)]
               /\ running' = i
               /\ ready' = Tail(ready)
          ELSE IF tasks[i].creates = 0
          THEN /\ tasks' = [tasks EXCEPT ![i].creates = @ + 1]
               /\ UNCHANGED <<running, ready, store>>
          ELSE /\ tasks' = [tasks EXCEPT ![i].state = "exception",
                                         ![i].creates = @ + 1,
                                         ![i].value = upload_except(HttpError)]
               /\ running' = 0
               /\ ready' = Append(Tail(ready), Done(i))
               /\ UNCHANGED store
    /\ UNCHANGED <<pc, response, bodyRead, fetchCalls, pdf_bytes, rasterCalls,
                   rendered, image_bytes_list, raised, outer, nfinished, result>>

\* First half of the task body: drive_service.files().create(...).execute().
\* The call blocks: the task keeps the thread until its body has ended.
UploadCreate(i) ==
    /\ running = 0
    /\ ready # <<>>
    /\ Head(ready) = Step(i)
    /\ \E out \in StoreOutcomes(i) :
          IF out = "ok"
          THEN /\ store' = Append(store,
                      [id |-> NewId(store), name |-> tasks[i].filename,
                       content |-> tasks[i].image_bytes, public |-> FALSE])
               /\ tasks' = [tasks EXCEPT ![i].state = "created",
                                         ![i].creates = @ + 1,
                                         ![i].file_id = NewId(store)]
               /\ running' = i
               /\ ready' = Tail(ready)
          ELSE /\ tasks' = [tasks EXCEPT ![i].state = "exception",
                                         ![i].creates = @ + 1,
                                         ![i].value = upload_except(HttpError)]
               /\ running' = 0
               /\ ready' = Append(Tail(ready), Done(i))
               /\ UNCHANGED store
    /\ UNCHANGED <<pc, response, bodyRead, fetchCalls, pdf_bytes, rasterCalls,
                   rendered, image_bytes_list, raised, outer, nfinished, result>>

\* Second half of the task body: drive_service.permissions().create(...).execute()
\* and the return of the link.
UploadGrant(i) ==
    /\ running = i
    /\ i \in DOMAIN tasks
    /\ \E out \in StoreOutcomes(i) :
          IF out = "ok"
          THEN /\ store' = [store EXCEPT ![tasks[i].file_id].public = TRUE]
               /\ tasks' = [tasks EXCEPT ![i].state = "result",
                                         ![i].grants = @ + 1,
                                         ![i].value = ShareableLink(tasks[i].file_id)]
          ELSE /\ tasks' = [tasks EXCEPT ![i].state = "exception",
                                         ![i].grants = @ + 1,
                                         ![i].value = upload_except(HttpError)]
               /\ UNCHANGED store
    /\ running' = 0
    /\ ready' = Append(ready, Done(i))
    /\ UNCHANGED <<pc, response, bodyRead, fetchCalls, pdf_bytes, rasterCalls,
                   rendered, image_bytes_list, raised, outer, nfinished, result>>

----------------------------------------------------------------------------
(* convert_pdf: asyncio.gather and the end of the handler *)

\* Mutant: the emptiness guard is missing.
IsEmpty_unchecked(image_urls) == FALSE

\* not image_urls
IsEmpty(image_urls) == Len(image_urls) = 0

\* Mutant: results collected in the reverse of the argument order.
GatherResults_reversed(ts) == [k \in 1..Len(ts) |-> ts[Len(ts) + 1 - k].value]

\* gather's children, in argument order.
GatherResults(ts) == [k \in 1..Len(ts) |-> ts[k].value]

\* Mutant: a child's exception is collected like a result (return_exceptions=True).
ChildFails_collected(t) == FALSE

\* gather without return_exceptions: a child's exception fails the outer future.
ChildFails(t) == t.state = "exception"

\* The end of convert_pdf once image_urls is bound.
Return(image_urls) ==
    IF IsEmpty(image_urls)
    THEN Fail(HTTPException(500, "No images were generated."))
    ELSE /\ pc' = "DONE"
         /\ result' = [status |-> 200, images |-> image_urls]

\* The list comprehension of coroutines and the call of asyncio.gather, up to
\* the await of its future.  gather() of no awaitable returns a future that is
\* already done with []: awaiting it does not suspend.
Gather ==
    /\ pc = "RASTERIZED"
    /\ tasks' = [k \in 1..Len(image_bytes_list) |-> NewTask(image_bytes_list[k], k - 1)]
    /\ IF Len(image_bytes_list) = 0
       THEN /\ outer' = [state |-> "result", value |-> <<>>]
            /\ Return(<<>>)
            /\ UNCHANGED ready
       ELSE /\ outer' = [state |-> "pending"]
            /\ ready' = [k \in 1..Len(image_bytes_list) |-> Step(k)]
            /\ pc' = "GATHER"
            /\ UNCHANGED result
    /\ UNCHANGED <<response, bodyRead, fetchCalls, pdf_bytes, rasterCalls, rendered,
                   image_bytes_list, raised, running, nfinished, store>>

\* gather's _done_callback for child i.
DoneCallback(i) ==
    /\ running = 0
    /\ ready # <<>>
    /\ Head(ready) = Done(i)
    /\ nfinished' = nfinished + 1
    /\ IF outer.state # "pending"
       THEN /\ ready' = Tail(ready)
            /\ UNCHANGED outer
       ELSE IF ChildFails(tasks[i])
       THEN /\ outer' = [state |-> "exception", value |-> tasks[i].value]
            /\ ready' = Append(Tail(ready), WakeUp)
       ELSE IF nfinished + 1 = Len(tasks)
       THEN /\ outer' = [state |-> "result", value |-> GatherResults(tasks)]
            /\ ready' = Append(Tail(ready), WakeUp)
       ELSE /\ ready' = Tail(ready)
            /\ UNCHANGED outer
    /\ UNCHANGED <<pc, response, bodyRead, fetchCalls, pdf_bytes, rasterCalls,
                   rendered, image_bytes_list, raised, tasks, running, store, result>>

\* The handler resumes from await asyncio.gather(...).
Resume ==
    /\ running = 0
    /\ ready # <<>>
    /\ Head(ready) = WakeUp
    /\ pc = "GATHER"
    /\ ready' = Tail(ready)
    /\ IF outer.state = "exception"
       THEN Fail(outer.value)
       ELSE Return(outer.value)
    /\ UNCHANGED <<response, bodyRead, fetchCalls, pdf_bytes, rasterCalls, rendered,
                   image_bytes_list, raised, tasks, running, outer, nfinished, store>>

\* The task the loop runs next: the one whose callback heads the ready queue,
\* or the one that holds the thread.
Scheduled ==
    IF running # 0 THEN {running}
    ELSE IF ready # <<>> THEN {Head(ready).i} \ {0}
    ELSE {}

Next ==
    \/ DownloadGet
    \/ DownloadRead
    \/ Convert
    \/ Gather
    \/ \E i \in Scheduled : UploadCreate(i)
    \/ \E i \in Scheduled : UploadGrant(i)
    \/ \E i \in Scheduled : DoneCallback(i)
    \/ Resume

Spec == Init /\ [][Next]_vars

----------------------------------------------------------------------------
(* Vocabulary of the properties, in terms of what the environment answered  *)
(* and of what the request did.                                             *)

PdfTypes == {CT_pdf, CT_PDF}            \* the Content-Types that contain "pdf"
LinkPrefix == "https://drive.google.com/uc?id="

BadStatus == response # None /\ response.status # 200
BadType == response # None /\ response.status = 200 /\ response.content_type \notin PdfTypes
TooLarge == pdf_bytes # None /\ pdf_bytes.len > 10485760
TransportError == raised # None /\ raised.cls = "ClientError"
FetchRejected == BadStatus \/ BadType \/ TooLarge

Parsed == rasterCalls > 0 /\ pdf_bytes.doc.parses
PageCount == pdf_bytes.doc.page_count
RasterizerReturned == rasterCalls > 0 /\ raised = None

\* Objects of the store created by this request.
PageObjects == {k \in DOMAIN store : store[k].name[1] = "page"}
ObjectsNamed(n) == {k \in DOMAIN store : store[k].name = n}

Finished == pc \in {"DONE", "FAILED"}
AnyUploadFailed == \E i \in DOMAIN tasks : tasks[i].state = "exception"
AllUploaded == tasks # <<>> /\ \A i \in DOMAIN tasks : tasks[i].state = "result"

----------------------------------------------------------------------------
(* C1: a success response for an N-page document (1 <= N <= 300) lists       *)
(* exactly N references, and the reference at position i (0-based) is the    *)
(* link of the object named page{i+1}.png that holds the image of page i+1;  *)
(* a request all of whose uploads succeeded ends with that response.         *)
C1_ReferencesInPageOrder ==
    /\ pc = "DONE" =>
          /\ PageCount \in 1..300
          /\ result.status = 200
          /\ Len(result.images) = PageCount
          /\ \A i \in 0..(PageCount - 1) :
                \E k \in DOMAIN store :
                   /\ store[k].name = <<"page", i + 1, ".png">>
                   /\ store[k].content = <<"png", i, 100>>
                   /\ result.images[i + 1] = <<LinkPrefix, store[k].id>>
    /\ (Finished /\ AllUploaded) => pc = "DONE"

C1_Witness == pc = "DONE" /\ Len(result.images) >= 3

(* C2: a fetch rejected by a validation check (status other than 200,        *)
(* Content-Type without "pdf", body over 10 MiB) is answered with HTTP 400.  *)
C2_RejectedFetchIs400 ==
    FetchRejected => (result # None /\ result.status = 400)

(* C3: a document of more than 300 pages is answered with the page-limit     *)
(* error and HTTP 400, not 500.                                              *)
C3_PageLimitIs400 ==
    (Parsed /\ PageCount > 300) => (result # None /\ result.status = 400)

(* C4: a document of more than 300 pages is rejected before any page is      *)
(* rendered, no image list is returned for it and no upload is started; and  *)
(* whenever the rasterizer returns, it returns exactly page-count images in  *)
(* increasing page order.                                                    *)
C4_HardRejectNoTruncation ==
    /\ (Parsed /\ PageCount > 300) =>
          /\ pc = "FAILED"
          /\ rendered = 0
          /\ image_bytes_list = <<>>
          /\ tasks = <<>>
          /\ PageObjects = {}
    /\ RasterizerReturned =>
          /\ Len(image_bytes_list) = PageCount
          /\ rendered = PageCount
          /\ \A k \in 1..Len(image_bytes_list) : image_bytes_list[k] = <<"png", k - 1, 100>>

C4_Witness == Parsed /\ PageCount = 301 /\ pc = "FAILED"

(* C5: a failed fetch (bad status, Content-Type without "pdf", body over     *)
(* 10 MiB, transport error) ends the request in failure with the rasterizer  *)
(* never invoked and no object created; a bad status or Content-Type rejects *)
(* before the body is read.                                                  *)
C5_FetchFailureStopsPipeline ==
    /\ (FetchRejected \/ TransportError) =>
          /\ pc = "FAILED"
          /\ result # None /\ result.status \in {400, 500}
          /\ rasterCalls = 0
          /\ rendered = 0
          /\ tasks = <<>>
          /\ PageObjects = {}
    /\ (BadStatus \/ BadType) => ~bodyRead

C5_Witness == TooLarge /\ pdf_bytes.doc.parses /\ pdf_bytes.doc.page_count = 1 /\ pc = "FAILED"

(* C6: when an upload failed, the finished request has failed with HTTP 500  *)
(* and carries no images list; every object created for the request is still *)
(* in the store under its name and with its content.                         *)
C6_PartialFailureNoRollback ==
    /\ (Finished /\ AnyUploadFailed) =>
          /\ pc = "FAILED"
          /\ result.status = 500
          /\ "images" \notin DOMAIN result
    /\ \A i \in DOMAIN tasks :
          tasks[i].file_id # 0 =>
             /\ tasks[i].file_id \in DOMAIN store
             /\ store[tasks[i].file_id].id = tasks[i].file_id
             /\ store[tasks[i].file_id].name = <<"page", i, ".png">>
             /\ store[tasks[i].file_id].content = <<"png", i - 1, 100>>

C6_Witness ==
    /\ pc = "FAILED"
    /\ \E i, j \in DOMAIN tasks :
          /\ tasks[i].state = "exception"
          /\ tasks[j].state = "result"
          /\ store[tasks[j].file_id].public

(* C7: a success response never carries an empty images list; when the       *)
(* rasterizer returned no image, nothing is uploaded and the request fails   *)
(* with the empty-result error, HTTP 500.                                    *)
C7_NoEmptySuccess ==
    /\ (result # None /\ result.status = 200) => Len(result.images) > 0
    /\ (RasterizerReturned /\ image_bytes_list = <<>>) =>
          /\ PageObjects = {}
          /\ \A i \in DOMAIN tasks : tasks[i].creates = 0
          /\ \/ pc = "RASTERIZED"
             \/ /\ pc = "FAILED"
                /\ result.status = 500
                /\ result.detail = "No images were generated."

C7_Witness ==
    /\ pc = "FAILED"
    /\ RasterizerReturned
    /\ image_bytes_list = <<>>
    /\ result.detail = "No images were generated."

C8_Transitions ==
    {<<"START", "READ">>, <<"READ", "FETCHED">>, <<"FETCHED", "RASTERIZED">>,
     <<"RASTERIZED", "GATHER">>, <<"GATHER", "DONE">>} \cup
    {<<p, "FAILED">> : p \in {"START", "READ", "FETCHED", "RASTERIZED", "GATHER"}}

(* C8: the request moves only along START -> (READ) -> FETCHED ->            *)
(* RASTERIZED -> GATHER -> DONE or from a running stage to FAILED; the fetch *)
(* and the rasterizer are called at most once and each page's create and     *)
(* grant at most once; the rasterizer runs only after an accepted fetch, the *)
(* uploads only after the rasterizer returned, DONE only after every upload  *)
(* succeeded; and once DONE or FAILED, no fetch, render, create or grant is  *)
(* performed and the response does not change.                               *)
C8_LinearNoRetry ==
    [][ /\ pc' # pc => <<pc, pc'>> \in C8_Transitions
        /\ fetchCalls' <= 1
        /\ rasterCalls' <= 1
        /\ \A i \in DOMAIN tasks' : tasks'[i].creates <= 1 /\ tasks'[i].grants <= 1
        /\ rasterCalls' > 0 =>
              /\ response'.status = 200
              /\ response'.content_type \in PdfTypes
              /\ bodyRead'
              /\ pdf_bytes'.len <= 10485760
        /\ tasks' # <<>> => RasterizerReturned'
        /\ pc' = "DONE" => (AllUploaded' /\ outer'.state = "result")
        /\ Finished =>
              UNCHANGED <<pc, result, store, tasks, fetchCalls, bodyRead,
                          rasterCalls, rendered>>
      ]_vars

C8_Witness ==
    /\ pc = "FAILED"
    /\ \E i, j \in DOMAIN tasks :
          /\ i < j
          /\ tasks[i].state = "exception"
          /\ tasks[j].state = "result"

(* C9: a grant is attempted only for an object whose creation succeeded; an  *)
(* upload yields a reference only after both calls succeeded, the reference  *)
(* is https://drive.google.com/uc?id=<id> for the id of the object created   *)
(* for that page, and that object is public; an upload whose creation failed *)
(* attempted no grant; an upload whose grant failed raises HTTP 500 and      *)
(* leaves its object in the store, not public.                               *)
C9_CreateThenGrant ==
    /\ \A i \in DOMAIN tasks :
          LET t == tasks[i] IN
          /\ t.grants > 0 => (t.creates = 1 /\ t.file_id # 0)
          /\ t.state \in {"pending", "created"} => t.value = None
          /\ t.state = "result" =>
                /\ t.creates = 1 /\ t.grants = 1
                /\ t.value = <<LinkPrefix, t.file_id>>
                /\ store[t.file_id].id = t.file_id
                /\ store[t.file_id].name = <<"page", i, ".png">>
                /\ store[t.file_id].public
          /\ t.state = "exception" =>
                /\ t.value.cls = "HTTPException" /\ t.value.status_code = 500
                /\ t.file_id = 0 => (t.grants = 0 /\ ObjectsNamed(<<"page", i, ".png">>) = {})
                /\ t.file_id # 0 =>
                      /\ t.grants = 1
                      /\ store[t.file_id].name = <<"page", i, ".png">>
                      /\ ~store[t.file_id].public
    /\ pc = "DONE" =>
          \A k \in 1..Len(result.images) :
             /\ result.images[k] = <<LinkPrefix, tasks[k].file_id>>
             /\ store[tasks[k].file_id].public

C9_Witness ==
    /\ pc = "FAILED"
    /\ result.status = 500
    /\ \E i \in DOMAIN tasks :
          /\ tasks[i].state = "exception"
          /\ tasks[i].file_id # 0
          /\ ~store[tasks[i].file_id].public

(* C10: each upload call is a suspension point: while the upload of one page *)
(* is in flight (its object created, its grant not yet made), the upload of  *)
(* the next ready page can start.                                            *)
C10_UploadsOverlap ==
    \A i \in DOMAIN tasks :
       (tasks[i].state = "created" /\ ready # <<>> /\ Head(ready).cb = "step")
          => ENABLED UploadCreate(Head(ready).i)

====
